---------------------------- MODULE Spec2Model ----------------------------
(***************************************************************************)
(* A model of openapi-gen/main.go: the naming functions                    *)
(* (snakeCaseToCamelCase, convertRefToClassName), the execution of         *)
(* codeTemplate over a decoded schema by main, and the run-time behaviour  *)
(* of the TypeScript the template emits (an operation method and doFetch). *)
(*                                                                         *)
(* A Go string is modelled as a sequence of one-character strings.         *)
(***************************************************************************)
EXTENDS Integers, Sequences, FiniteSets, TLC

\* ------------------------------------------------------------------ bounds

\* Longest input string given to the naming functions.
MaxLen == 4

\* ------------------------------------------------------------- characters

LowerLetters ==
    <<"a","b","c","d","e","f","g","h","i","j","k","l","m",
      "n","o","p","q","r","s","t","u","v","w","x","y","z">>

UpperLetters ==
    <<"A","B","C","D","E","F","G","H","I","J","K","L","M",
      "N","O","P","Q","R","S","T","U","V","W","X","Y","Z">>

DigitChars == {"0","1","2","3","4","5","6","7","8","9"}

Range(f) == { f[i] : i \in DOMAIN f }

IsLower(c) == c \in Range(LowerLetters)

IsUpper(c) == c \in Range(UpperLetters)

LetterIndex(letters, c) == CHOOSE i \in DOMAIN letters : letters[i] = c

\* strings.ToUpper on a one-character ASCII string.
ToUpper(c) == IF IsLower(c) THEN UpperLetters[LetterIndex(LowerLetters, c)] ELSE c

\* strings.ToLower on a one-character ASCII string.
ToLower(c) == IF IsUpper(c) THEN LowerLetters[LetterIndex(UpperLetters, c)] ELSE c

\* strings.Title's word boundary: for ASCII, everything but letters, digits
\* and the underscore separates words.
isSeparator(c) == ~(IsLower(c) \/ IsUpper(c) \/ c \in DigitChars \/ c = "_")

\* All strings over alphabet of length at most n.
StringsUpTo(alphabet, n) == UNION { [1..k -> alphabet] : k \in 0..n }

\* --------------------------------------------------------- naming functions

RECURSIVE CamelLoop(_, _, _, _)
\* The loop of snakeCaseToCamelCase: k is the (1-based) position, isToUpper
\* the flag, camelCase the result so far.
CamelLoop(input, k, isToUpper, camelCase) ==
    IF k > Len(input) THEN camelCase
    ELSE IF k = 1
         THEN CamelLoop(input, 2, isToUpper, <<ToLower(input[1])>>)
    ELSE IF isToUpper
         THEN CamelLoop(input, k + 1, FALSE, Append(camelCase, ToUpper(input[k])))
    ELSE IF input[k] = "_"
         THEN CamelLoop(input, k + 1, TRUE, camelCase)
    ELSE CamelLoop(input, k + 1, FALSE, Append(camelCase, input[k]))

snakeCaseToCamelCase(input) == CamelLoop(input, 1, FALSE, <<>>)

RECURSIVE TitleLoop(_, _, _)
\* strings.Title: Map over the runes with the previous rune remembered; a
\* rune that follows a separator is title-cased.
TitleLoop(s, i, prev) ==
    IF i > Len(s) THEN <<>>
    ELSE <<(IF isSeparator(prev) THEN ToUpper(s[i]) ELSE s[i])>>
             \o TitleLoop(s, i + 1, s[i])

Title(s) == TitleLoop(s, 1, " ")

\* The text "#/definitions/".
DefinitionsPrefix == <<"#","/","d","e","f","i","n","i","t","i","o","n","s","/">>

HasPrefix(s, prefix) ==
    Len(s) >= Len(prefix) /\ SubSeq(s, 1, Len(prefix)) = prefix

\* strings.TrimPrefix
TrimPrefix(s, prefix) ==
    IF HasPrefix(s, prefix) THEN SubSeq(s, Len(prefix) + 1, Len(s)) ELSE s

\* A slip: the prefix is left in place.
convertRefToClassName_NoTrim(input) == Title(input)

convertRefToClassName(input) == Title(TrimPrefix(input, DefinitionsPrefix))

\* ------------------------------------------------------ the schema document

\* Characters in byte order, as far as the keys of the model use them: Go's
\* text/template visits a map in the sorted order of its keys.
ByteOrder ==
    <<"#", ".", "/", "0","1","2","3","4","5","6","7","8","9">>
        \o UpperLetters \o <<"_">> \o LowerLetters

ByteOf(c) == CHOOSE i \in DOMAIN ByteOrder : ByteOrder[i] = c

\* s < t in the byte-wise order of Go strings: at the first position where
\* they differ s has the smaller byte, or s is a proper prefix of t.
StringLess(s, t) ==
    \E i \in 1..Len(t) :
        /\ i <= Len(s) + 1
        /\ \A j \in 1..(i - 1) : s[j] = t[j]
        /\ (i = Len(s) + 1 \/ ByteOf(s[i]) < ByteOf(t[i]))

\* The keys of a map in the order range visits them.
SortedKeys(S) ==
    CHOOSE q \in [1..Cardinality(S) -> S] :
        \A i, j \in 1..Cardinality(S) : i < j => StringLess(q[i], q[j])

NoRef == <<>>

account == <<"a","c","c","o","u","n","t">>
user == <<"u","s","e","r">>
id == <<"i","d">>
user_id == <<"u","s","e","r","_","i","d">>
get_user == <<"g","e","t","_","u","s","e","r">>

\* Property keys of a definition, and the definition references point to.
PropKeys == {id, user_id}
RefTarget == DefinitionsPrefix \o user

NoNested == [Type |-> "", Ref |-> NoRef]

Descriptor(type, ref, items, additional) ==
    [Type |-> type, Ref |-> ref, Items |-> items, AdditionalProperties |-> additional]

\* The property descriptors of a document, as its JSON gives them.
PropertyShapes ==
    { Descriptor(t, NoRef, NoNested, NoNested) :
        t \in {"integer", "number", "boolean", "string", "file"} }
    \cup { Descriptor("array", NoRef, [Type |-> t, Ref |-> NoRef], NoNested) :
        t \in {"string", "integer", "boolean"} }
    \cup { Descriptor("array", NoRef, [Type |-> "", Ref |-> RefTarget], NoNested) }
    \cup { Descriptor("object", NoRef, NoNested, [Type |-> t, Ref |-> NoRef]) :
        t \in {"string", "integer", "boolean"} }
    \cup { Descriptor("object", NoRef, NoNested, [Type |-> "", Ref |-> RefTarget]) }
    \cup { Descriptor("", RefTarget, NoNested, NoNested) }

PropertyMaps == UNION { [P -> PropertyShapes] : P \in SUBSET PropKeys }

\* The definition references point to, when the document holds it.
UserDefinition ==
    [Properties |-> (id :> Descriptor("string", NoRef, NoNested, NoNested))]

\* The definitions of a document: account, with any properties, and user,
\* present or not (a reference to it is unresolved when it is not).
DefinitionsChoices ==
    { (account :> [Properties |-> ps]) : ps \in PropertyMaps }
    \cup { (account :> [Properties |-> ps]) @@ (user :> UserDefinition) :
            ps \in PropertyMaps }

Parameter(name, in, required, type, items, schema, additional) ==
    [Name |-> name, In |-> in, Required |-> required, Type |-> type,
     Items |-> [Type |-> items], Schema |-> schema,
     AdditionalProperties |-> [Type |-> additional]]

\* The parameters of an operation, as the document's JSON gives them.
ParameterShapes ==
    { Parameter(id, "path", TRUE, "string", "", NoNested, ""),
      Parameter(user_id, "query", FALSE, "string", "", NoNested, ""),
      Parameter(user_id, "query", FALSE, "integer", "", NoNested, ""),
      Parameter(user_id, "query", FALSE, "array", "string", NoNested, ""),
      Parameter(user_id, "query", FALSE, "object", "", NoNested, "string"),
      Parameter(user_id, "formData", FALSE, "boolean", "", NoNested, ""),
      Parameter(user_id, "body", FALSE, "", "", [Type |-> "string", Ref |-> NoRef], ""),
      Parameter(user_id, "body", TRUE, "", "", [Type |-> "", Ref |-> RefTarget], "") }

Operations ==
    [ OperationId : {get_user},
      ResponseRef : {NoRef, RefTarget},
      Parameters  : {<<>>} \cup { <<p>> : p \in ParameterShapes } ]

\* Paths, flattened: url and method are keys of nested maps.
PathsChoices ==
    { <<>> } \cup
    { << [Url |-> "/v1/user/{id}", Method |-> <<"g","e","t">>, Operation |-> op] >> :
        op \in Operations }

Documents == [Definitions : DefinitionsChoices, Paths : PathsChoices]

\* json.Unmarshal into the schema struct: fields the struct does not declare
\* are dropped (the $ref of additionalProperties; additionalProperties of a
\* parameter).
DecodeProperty(p) ==
    [Type |-> p.Type, Ref |-> p.Ref, Items |-> p.Items,
     AdditionalProperties |-> [Type |-> p.AdditionalProperties.Type]]

DecodeParameter(p) ==
    [Name |-> p.Name, In |-> p.In, Required |-> p.Required, Type |-> p.Type,
     Items |-> p.Items, Schema |-> p.Schema]

Decode(doc) ==
    [Definitions |->
        [d \in DOMAIN doc.Definitions |->
            [Properties |->
                [k \in DOMAIN doc.Definitions[d].Properties |->
                    DecodeProperty(doc.Definitions[d].Properties[k])]]],
     Paths |->
        [i \in DOMAIN doc.Paths |->
            [Url |-> doc.Paths[i].Url, Method |-> doc.Paths[i].Method,
             Operation |->
                [OperationId |-> doc.Paths[i].Operation.OperationId,
                 ResponseRef |-> doc.Paths[i].Operation.ResponseRef,
                 Parameters |->
                    [j \in DOMAIN doc.Paths[i].Operation.Parameters |->
                        DecodeParameter(doc.Paths[i].Operation.Parameters[j])]]]]]

\* ------------------------------------------------- what the template emits

\* An emitted TypeScript type: ctor is "" (a bare type), "Array" (Array<T>),
\* "MapString" (Map<string, T>) or "Map" (Map<T>); T is prim, a type word,
\* or ref, a class name.
TypeOf(ctor, prim, ref) == [ctor |-> ctor, prim |-> prim, ref |-> ref]

NoType == TypeOf("", "", <<>>)

\* The result of evaluating one branch of the template: the type it writes,
\* or an execution error.
Emitted(type) == [err |-> FALSE, type |-> type]
ExecError(type) == [err |-> TRUE, type |-> type]

\* cleanRef given a struct instead of a string: text/template refuses the
\* call ("wrong type for value; expected string; got struct"), after the
\* text before it ("Map<") is written.
CleanRefOfStruct == ExecError(TypeOf("Map", "", <<>>))

\* Lines 46-76: the type of a definition's property.
PropertyType(property) ==
    IF property.Type = "integer" THEN Emitted(TypeOf("", "number", <<>>))
    ELSE IF property.Type = "number" THEN Emitted(TypeOf("", "number", <<>>))
    ELSE IF property.Type = "boolean" THEN Emitted(TypeOf("", "boolean", <<>>))
    ELSE IF property.Type = "array" THEN
        IF property.Items.Type = "string" THEN Emitted(TypeOf("Array", "string", <<>>))
        ELSE IF property.Items.Type = "integer" THEN Emitted(TypeOf("Array", "number", <<>>))
        ELSE IF property.Items.Type = "boolean" THEN Emitted(TypeOf("Array", "boolean", <<>>))
        ELSE Emitted(TypeOf("Array", "", convertRefToClassName(property.Items.Ref)))
    ELSE IF property.Type = "object" THEN
        IF property.AdditionalProperties.Type = "string"
            THEN Emitted(TypeOf("MapString", "string", <<>>))
        ELSE IF property.AdditionalProperties.Type = "integer"
            THEN Emitted(TypeOf("MapString", "integer", <<>>))
        ELSE IF property.AdditionalProperties.Type = "boolean"
            THEN Emitted(TypeOf("MapString", "boolean", <<>>))
        ELSE CleanRefOfStruct
    ELSE IF property.Type = "string" THEN Emitted(TypeOf("", "string", <<>>))
    ELSE Emitted(TypeOf("", "", convertRefToClassName(property.Ref)))

\* A slip: the field is named by the camelCase form of the property key.
FieldName_CamelCase(fieldname) == snakeCaseToCamelCase(fieldname)

\* {{$fieldname}}: the property key as it is.
FieldName(fieldname) == fieldname

\* Lines 144-160: the type of an operation's parameter in the signature.
\* A parameter has no AdditionalProperties field, so evaluating line 155
\* fails ("can't evaluate field AdditionalProperties").
ParameterType(parameter) ==
    IF parameter.In = "path" THEN Emitted(TypeOf("", parameter.Type, <<>>))
    ELSE IF parameter.In = "body" THEN
        IF parameter.Schema.Type = "string"
            THEN Emitted(TypeOf("", parameter.Schema.Type, <<>>))
        ELSE Emitted(TypeOf("", "", convertRefToClassName(parameter.Schema.Ref)))
    ELSE IF parameter.Type = "array"
        THEN Emitted(TypeOf("Array", parameter.Items.Type, <<>>))
    ELSE IF parameter.Type = "object" THEN ExecError(TypeOf("Map", "", <<>>))
    ELSE IF parameter.Type = "integer" THEN Emitted(TypeOf("", "number", <<>>))
    ELSE Emitted(TypeOf("", parameter.Type, <<>>))

\* Line 162: the declared result type; an empty cleanRef result is false.
ReturnType(operation) ==
    IF convertRefToClassName(operation.ResponseRef) # <<>>
    THEN TypeOf("", "", convertRefToClassName(operation.ResponseRef))
    ELSE TypeOf("", "any", <<>>)

\* A piece of output text. kind names the piece; name, type and args carry
\* the parts of it that come from the document. Descriptions and summaries
\* are comments of the output and carry no text here.
Chunk(kind, name, type, args) ==
    [kind |-> kind, name |-> name, type |-> type, args |-> args]

Argument(parameter, type) ==
    [name |-> snakeCaseToCamelCase(parameter.Name),
     optional |-> ~parameter.Required,
     type |-> type]

\* Lines 140-197 for one operation: the method, or on an execution error
\* the signature up to the failing parameter.
MethodChunks(operation) ==
    LET ps == operation.Parameters
        types == [j \in DOMAIN ps |-> ParameterType(ps[j])]
        failing == { j \in DOMAIN ps : types[j].err }
        name == snakeCaseToCamelCase(operation.OperationId)
    IN  IF failing = {}
        THEN [err |-> FALSE,
              chunks |-> << Chunk("method", name, ReturnType(operation),
                                  [j \in DOMAIN ps |-> Argument(ps[j], types[j].type)]) >>]
        ELSE LET first == CHOOSE j \in failing : \A k \in failing : j <= k
             IN  [err |-> TRUE,
                  chunks |-> << Chunk("methodPartial", name, NoType,
                                      [j \in 1..first |-> Argument(ps[j], types[j].type)]) >>]

\* Lines 44-77 for one property: the description comment, then the field;
\* on an execution error the field's text up to the failing call.
PropertyChunks(fieldname, property) ==
    LET t == PropertyType(property)
    IN  [err |-> t.err,
         chunks |-> << Chunk("comment", <<>>, NoType, <<>>),
                       Chunk(IF t.err THEN "fieldPartial" ELSE "field",
                             FieldName(fieldname), t.type, <<>>) >>]

\* ------------------------------------------------------------------- state

VARIABLES
    nFunc,      \* naming: the function under application
    nInput,     \* naming: its input
    nPc,        \* naming: "start", "once", "twice"
    nOut,       \* naming: the result of the first application
    nOut2,      \* naming: the result of applying camelCase to nOut
    document,   \* generator: the input document, as its JSON reads
    schema,     \* generator: the decoded schema struct
    output,     \* generator: "stdout" or "file" (the -output flag)
    gPc,        \* generator: main's position
    gDef,       \* generator: index of the definition being rendered
    gProp,      \* generator: index of the property being rendered
    gOp,        \* generator: index of the operation being rendered
    buf,        \* generator: the bufio.Writer's buffer
    dest,       \* generator: what the destination (stdout or the file) holds
    execErr,    \* generator: Execute ended with an error
    createErr,  \* generator: os.Create failed
    cParams,    \* client: the parameters the method was generated from
    cArgs,      \* client: the arguments of the call, one per parameter
    cPc,        \* client: the call's position in the method
    cIdx,       \* client: the parameter whose required-check runs next
    cThrown,    \* client: the argument name in the thrown Error's message
    cRequest,   \* client: what the method hands to doFetch
    fFetches,   \* doFetch: the number of fetch() calls made
    fNet,       \* doFetch: the state of the fetch(...).then(...) branch
    fStatus,    \* doFetch: the status of the response, 0 before one arrives
    fTimer,     \* doFetch: the state of the setTimeout branch
    fOutcome,   \* doFetch: the state of the promise Promise.race returned
    fEvents     \* doFetch: the branches in the order they settled

namingVars == <<nFunc, nInput, nPc, nOut, nOut2>>

genVars == <<document, schema, output, gPc, gDef, gProp, gOp, buf, dest,
             execErr, createErr>>

clientVars == <<cParams, cArgs, cPc, cIdx, cThrown, cRequest, fFetches, fNet,
                fStatus, fTimer, fOutcome, fEvents>>

vars == <<namingVars, genVars, clientVars>>

NamingIdle ==
    /\ nFunc = "none"
    /\ nInput = <<>>
    /\ nPc = "idle"
    /\ nOut = <<>>
    /\ nOut2 = <<>>

GenIdle ==
    /\ document = [Definitions |-> <<>>, Paths |-> <<>>]
    /\ schema = [Definitions |-> <<>>, Paths |-> <<>>]
    /\ output = "none"
    /\ gPc = "idle"
    /\ gDef = 0
    /\ gProp = 0
    /\ gOp = 0
    /\ buf = <<>>
    /\ dest = <<>>
    /\ execErr = FALSE
    /\ createErr = FALSE

Pending == [state |-> "pending", kind |-> "", status |-> 0]

NoRequest == [replaced |-> <<>>, query |-> <<>>, body |-> "null"]

ClientIdle ==
    /\ cParams = <<>>
    /\ cArgs = <<>>
    /\ cPc = "idle"
    /\ cIdx = 0
    /\ cThrown = <<>>
    /\ cRequest = NoRequest
    /\ fFetches = 0
    /\ fNet = "idle"
    /\ fStatus = 0
    /\ fTimer = "idle"
    /\ fOutcome = Pending
    /\ fEvents = <<>>

\* ------------------------------------------------- the naming specification

\* snake_case inputs: lowercase letters, digits and underscores.
SnakeAlphabet == {"a", "b", "1", "_"}

\* Reference remainders: letters, the underscore and a separator.
RefAlphabet == {"a", "b", "_", "."}

SnakeInputs == StringsUpTo(SnakeAlphabet, MaxLen)

RefInputs ==
    LET rems == StringsUpTo(RefAlphabet, MaxLen)
    IN  rems \cup { DefinitionsPrefix \o r : r \in rems }

InitNaming ==
    /\ nFunc \in {"camelCase", "cleanRef"}
    /\ nInput \in (IF nFunc = "camelCase" THEN SnakeInputs ELSE RefInputs)
    /\ nPc = "start"
    /\ nOut = <<>>
    /\ nOut2 = <<>>
    /\ GenIdle
    /\ ClientIdle

ApplyCamelCase ==
    /\ nFunc = "camelCase"
    /\ nPc = "start"
    /\ nOut' = snakeCaseToCamelCase(nInput)
    /\ nPc' = "once"
    /\ UNCHANGED <<nFunc, nInput, nOut2, genVars, clientVars>>

ReapplyCamelCase ==
    /\ nFunc = "camelCase"
    /\ nPc = "once"
    /\ nOut2' = snakeCaseToCamelCase(nOut)
    /\ nPc' = "twice"
    /\ UNCHANGED <<nFunc, nInput, nOut, genVars, clientVars>>

ApplyCleanRef ==
    /\ nFunc = "cleanRef"
    /\ nPc = "start"
    /\ nOut' = convertRefToClassName(nInput)
    /\ nPc' = "once"
    /\ UNCHANGED <<nFunc, nInput, nOut2, genVars, clientVars>>

NextNaming == ApplyCamelCase \/ ReapplyCamelCase \/ ApplyCleanRef

SpecNaming == InitNaming /\ [][NextNaming]_vars

\* ---------------------------------------------- the generator specification

\* main from line 314 on: the document is read and decoded, the template is
\* parsed. The rendered text of the documents considered here stays under
\* the 4096 bytes a bufio.Writer holds, so the buffer reaches the file only
\* by Flush.
InitGen ==
    /\ NamingIdle
    /\ ClientIdle
    /\ document \in Documents
    /\ schema = Decode(document)
    /\ output \in {"stdout", "file"}
    /\ gPc = "start"
    /\ gDef = 0
    /\ gProp = 0
    /\ gOp = 0
    /\ buf = <<>>
    /\ dest = <<>>
    /\ execErr = FALSE
    /\ createErr = FALSE

DefinitionKeys == SortedKeys(DOMAIN schema.Definitions)

PropertyKeys(d) == SortedKeys(DOMAIN schema.Definitions[d].Properties)

\* The template writes to os.Stdout (line 315) or to the bufio.Writer
\* (line 327).
Write(chunks) ==
    IF output = "stdout"
    THEN dest' = dest \o chunks /\ buf' = buf
    ELSE buf' = buf \o chunks /\ dest' = dest

\* Lines 314-315: no -output flag, render to standard output.
UseStdout ==
    /\ gPc = "start"
    /\ output = "stdout"
    /\ gPc' = "header"
    /\ UNCHANGED <<document, schema, output, gDef, gProp, gOp, buf, dest,
                   execErr, createErr, namingVars, clientVars>>

\* Lines 319-326: os.Create succeeds; the file is empty.
CreateFile ==
    /\ gPc = "start"
    /\ output = "file"
    /\ gPc' = "header"
    /\ dest' = <<>>
    /\ UNCHANGED <<document, schema, output, gDef, gProp, gOp, buf,
                   execErr, createErr, namingVars, clientVars>>

\* Lines 319-323: os.Create fails; main returns.
CreateFileFails ==
    /\ gPc = "start"
    /\ output = "file"
    /\ gPc' = "done"
    /\ createErr' = TRUE
    /\ UNCHANGED <<document, schema, output, gDef, gProp, gOp, buf, dest,
                   execErr, namingVars, clientVars>>

\* Lines 28-40: the text before the definitions.
EmitHeader ==
    /\ gPc = "header"
    /\ Write(<< Chunk("header", <<>>, NoType, <<>>) >>)
    /\ IF DOMAIN schema.Definitions = {}
       THEN gPc' = "dispatcher" /\ gDef' = gDef
       ELSE gPc' = "interface" /\ gDef' = 1
    /\ UNCHANGED <<document, schema, output, gProp, gOp, execErr, createErr,
                   namingVars, clientVars>>

\* Lines 42-43: the description and the interface's opening line.
EmitInterfaceOpen ==
    /\ gPc = "interface"
    /\ LET d == DefinitionKeys[gDef]
       IN  /\ Write(<< Chunk("comment", <<>>, NoType, <<>>),
                       Chunk("interface", Title(d), NoType, <<>>) >>)
           /\ IF DOMAIN schema.Definitions[d].Properties = {}
              THEN gPc' = "close" /\ gProp' = 0
              ELSE gPc' = "property" /\ gProp' = 1
    /\ UNCHANGED <<document, schema, output, gDef, gOp, execErr, createErr,
                   namingVars, clientVars>>

\* Lines 44-77: one property of the definition; an execution error ends
\* Execute.
EmitProperty ==
    /\ gPc = "property"
    /\ LET d == DefinitionKeys[gDef]
           k == PropertyKeys(d)[gProp]
           r == PropertyChunks(k, schema.Definitions[d].Properties[k])
       IN  /\ Write(r.chunks)
           /\ execErr' = r.err
           /\ IF r.err THEN gPc' = "executed" /\ gProp' = gProp
              ELSE IF gProp < Len(PropertyKeys(d))
                   THEN gPc' = "property" /\ gProp' = gProp + 1
              ELSE gPc' = "close" /\ gProp' = gProp
    /\ UNCHANGED <<document, schema, output, gDef, gOp, createErr, namingVars, clientVars>>

\* Line 78: the interface's closing brace.
EmitInterfaceClose ==
    /\ gPc = "close"
    /\ Write(<< Chunk("close", <<>>, NoType, <<>>) >>)
    /\ IF gDef < Len(DefinitionKeys)
       THEN gPc' = "interface" /\ gDef' = gDef + 1
       ELSE gPc' = "dispatcher" /\ gDef' = gDef
    /\ UNCHANGED <<document, schema, output, gProp, gOp, execErr, createErr,
                   namingVars, clientVars>>

\* Lines 80-137: the factory's opening and doFetch.
EmitDispatcher ==
    /\ gPc = "dispatcher"
    /\ Write(<< Chunk("dispatcher", <<>>, NoType, <<>>) >>)
    /\ IF Len(schema.Paths) = 0
       THEN gPc' = "footer" /\ gOp' = gOp
       ELSE gPc' = "method" /\ gOp' = 1
    /\ UNCHANGED <<document, schema, output, gDef, gProp, execErr, createErr,
                   namingVars, clientVars>>

\* Lines 138-198: one operation's method; an execution error ends Execute.
EmitMethod ==
    /\ gPc = "method"
    /\ LET r == MethodChunks(schema.Paths[gOp].Operation)
       IN  /\ Write(r.chunks)
           /\ execErr' = r.err
           /\ IF r.err THEN gPc' = "executed" /\ gOp' = gOp
              ELSE IF gOp < Len(schema.Paths)
                   THEN gPc' = "method" /\ gOp' = gOp + 1
              ELSE gPc' = "footer" /\ gOp' = gOp
    /\ UNCHANGED <<document, schema, output, gDef, gProp, createErr, namingVars, clientVars>>

\* Lines 200-203: the text after the operations; Execute returns nil.
EmitFooter ==
    /\ gPc = "footer"
    /\ Write(<< Chunk("footer", <<>>, NoType, <<>>) >>)
    /\ gPc' = "executed"
    /\ UNCHANGED <<document, schema, output, gDef, gProp, gOp, execErr,
                   createErr, namingVars, clientVars>>

\* Lines 315-316: Execute's error is dropped; main returns.
ReturnAfterStdout ==
    /\ gPc = "executed"
    /\ output = "stdout"
    /\ gPc' = "done"
    /\ UNCHANGED <<document, schema, output, gDef, gProp, gOp, buf, dest,
                   execErr, createErr, namingVars, clientVars>>

\* Lines 327-328 and the deferred Close: Execute's error is dropped and the
\* buffer is flushed to the file.
FlushAndClose ==
    /\ gPc = "executed"
    /\ output = "file"
    /\ dest' = dest \o buf
    /\ buf' = <<>>
    /\ gPc' = "done"
    /\ UNCHANGED <<document, schema, output, gDef, gProp, gOp, execErr,
                   createErr, namingVars, clientVars>>

NextGen ==
    \/ UseStdout
    \/ CreateFile
    \/ CreateFileFails
    \/ EmitHeader
    \/ EmitInterfaceOpen
    \/ EmitProperty
    \/ EmitInterfaceClose
    \/ EmitDispatcher
    \/ EmitMethod
    \/ EmitFooter
    \/ ReturnAfterStdout
    \/ FlushAndClose

SpecGen == InitGen /\ [][NextGen]_vars

\* ------------------------------------------------- the client specification

\* Most parameters of the operation a method is generated from.
MaxParams == 2

limit_count == <<"l","i","m","i","t","_","c","o","u","n","t">>

\* Parameter names by position: an operation's parameters have distinct
\* names, and distinct argument names.
ParamNames == <<user_id, id, limit_count, account>>

ClientParameters ==
    UNION { { ps \in [1..n -> [Name : Range(ParamNames),
                               In : {"path", "query", "body"},
                               Required : BOOLEAN]] :
                \A i \in 1..n : ps[i].Name = ParamNames[i] } :
            n \in 0..MaxParams }

\* What a caller may pass for an argument.
ArgValues == {"null", "undefined", "value"}

\* Line 192, arg || {}: of the values a caller passes here, null and
\* undefined are the falsy ones.
IsFalsy(arg) == arg = "null" \/ arg = "undefined"

\* A slip: only null is tested.
IsMissing_NullOnly(arg) == arg = "null"

\* Line 166: arg === null || arg === undefined
IsMissing(arg) == arg = "null" \/ arg = "undefined"

\* 200..299, line 127.
IsSuccess(status) == status >= 200 /\ status < 300

Statuses == {199, 200, 299, 300}

Rejected(kind, status) == [state |-> "rejected", kind |-> kind, status |-> status]

Fulfilled(kind, status) == [state |-> "fulfilled", kind |-> kind, status |-> status]

\* A slip: the branch that settles last decides.
RaceSettle_LastWins(outcome, result) == result

\* Line 125, Promise.race: the promise takes the result of the branch that
\* settles first and is settled for good.
RaceSettle(outcome, result) ==
    IF outcome.state = "pending" THEN result ELSE outcome

\* The method of an operation with parameters cParams is called with cArgs.
InitClient ==
    /\ NamingIdle
    /\ GenIdle
    /\ cParams \in ClientParameters
    /\ cArgs \in [1..Len(cParams) -> ArgValues]
    /\ cPc = "check"
    /\ cIdx = 1
    /\ cThrown = <<>>
    /\ cRequest = NoRequest
    /\ fFetches = 0
    /\ fNet = "idle"
    /\ fStatus = 0
    /\ fTimer = "idle"
    /\ fOutcome = Pending
    /\ fEvents = <<>>

fetchVars == <<fFetches, fNet, fStatus, fTimer, fOutcome, fEvents>>

\* Lines 163-170, one turn of the range: a required parameter's argument
\* is tested and the method throws when it is missing.
CheckRequired ==
    /\ cPc = "check"
    /\ cIdx <= Len(cParams)
    /\ IF cParams[cIdx].Required /\ IsMissing(cArgs[cIdx])
       THEN /\ cPc' = "threw"
            /\ cThrown' = snakeCaseToCamelCase(cParams[cIdx].Name)
            /\ cIdx' = cIdx
       ELSE /\ cPc' = "check"
            /\ cIdx' = cIdx + 1
            /\ cThrown' = cThrown
    /\ UNCHANGED <<cParams, cArgs, cRequest, fetchVars, namingVars, genVars>>

RECURSIVE PositionsFrom(_, _, _)
\* The positions, from i on, of the parameters with the given location, in
\* declaration order.
PositionsFrom(ps, in, i) ==
    IF i > Len(ps) THEN <<>>
    ELSE (IF ps[i].In = in THEN <<i>> ELSE <<>>) \o PositionsFrom(ps, in, i + 1)

\* Lines 171-194: the path with its placeholders replaced, the query
\* parameters, and the body: JSON.stringify(arg || {}) of the last body
\* parameter.
BuildRequest ==
    /\ cPc = "check"
    /\ cIdx > Len(cParams)
    /\ LET paths == PositionsFrom(cParams, "path", 1)
           queries == PositionsFrom(cParams, "query", 1)
           bodies == PositionsFrom(cParams, "body", 1)
       IN  cRequest' =
             [replaced |-> [j \in DOMAIN paths |-> cParams[paths[j]].Name],
              query |-> [j \in DOMAIN queries |->
                            [key |-> cParams[queries[j]].Name,
                             value |-> cArgs[queries[j]]]],
              body |-> IF bodies = <<>> THEN "null"
                       ELSE IF IsFalsy(cArgs[bodies[Len(bodies)]]) THEN "{}"
                       ELSE "json"]
    /\ cPc' = "built"
    /\ UNCHANGED <<cParams, cArgs, cIdx, cThrown, fetchVars, namingVars, genVars>>

\* Line 196 and lines 91-136: doFetch builds the query string and the
\* headers, calls fetch and starts the timer.
CallDoFetch ==
    /\ cPc = "built"
    /\ cPc' = "fetching"
    /\ fFetches' = fFetches + 1
    /\ fNet' = "pending"
    /\ fTimer' = "armed"
    /\ UNCHANGED <<cParams, cArgs, cIdx, cThrown, cRequest, fStatus, fOutcome,
                   fEvents, namingVars, genVars>>

\* fetch's promise is fulfilled with a response.
ResponseArrives ==
    /\ fNet = "pending"
    /\ \E s \in Statuses : fStatus' = s
    /\ fNet' = "response"
    /\ UNCHANGED <<cParams, cArgs, cPc, cIdx, cThrown, cRequest, fFetches,
                   fTimer, fOutcome, fEvents, namingVars, genVars>>

\* fetch's promise is rejected (no response); the then-branch is rejected
\* with the same error.
FetchFails ==
    /\ fNet = "pending"
    /\ fNet' = "rejected"
    /\ fOutcome' = RaceSettle(fOutcome, Rejected("network error", 0))
    /\ fEvents' = Append(fEvents, "net")
    /\ UNCHANGED <<cParams, cArgs, cPc, cIdx, cThrown, cRequest, fFetches,
                   fStatus, fTimer, namingVars, genVars>>

\* Lines 126-132, the then callback: a 2xx response is handed to
\* response.json(), any other is thrown.
OnResponse ==
    /\ fNet = "response"
    /\ IF IsSuccess(fStatus)
       THEN /\ fNet' = "parsing"
            /\ UNCHANGED <<fOutcome, fEvents>>
       ELSE /\ fNet' = "rejected"
            /\ fOutcome' = RaceSettle(fOutcome, Rejected("response", fStatus))
            /\ fEvents' = Append(fEvents, "net")
    /\ UNCHANGED <<cParams, cArgs, cPc, cIdx, cThrown, cRequest, fFetches,
                   fStatus, fTimer, namingVars, genVars>>

\* response.json() is fulfilled with the parsed body.
JsonParsed ==
    /\ fNet = "parsing"
    /\ fNet' = "fulfilled"
    /\ fOutcome' = RaceSettle(fOutcome, Fulfilled("json", fStatus))
    /\ fEvents' = Append(fEvents, "net")
    /\ UNCHANGED <<cParams, cArgs, cPc, cIdx, cThrown, cRequest, fFetches,
                   fStatus, fTimer, namingVars, genVars>>

\* response.json() is rejected: the body is not JSON (or is empty).
JsonFails ==
    /\ fNet = "parsing"
    /\ fNet' = "rejected"
    /\ fOutcome' = RaceSettle(fOutcome, Rejected("parse error", fStatus))
    /\ fEvents' = Append(fEvents, "net")
    /\ UNCHANGED <<cParams, cArgs, cPc, cIdx, cThrown, cRequest, fFetches,
                   fStatus, fTimer, namingVars, genVars>>

\* Lines 133-135: the timer fires and rejects its promise.
TimerFires ==
    /\ fTimer = "armed"
    /\ fTimer' = "fired"
    /\ fOutcome' = RaceSettle(fOutcome, Rejected("Request timed out.", 0))
    /\ fEvents' = Append(fEvents, "timer")
    /\ UNCHANGED <<cParams, cArgs, cPc, cIdx, cThrown, cRequest, fFetches,
                   fNet, fStatus, namingVars, genVars>>

NextClient ==
    \/ CheckRequired
    \/ BuildRequest
    \/ CallDoFetch
    \/ ResponseArrives
    \/ FetchFails
    \/ OnResponse
    \/ JsonParsed
    \/ JsonFails
    \/ TimerFires

SpecClient == InitClient /\ [][NextClient]_vars

\* ----------------------------------------------------------- naming claims

Elems(s) == { s[i] : i \in 1..Len(s) }

\* C1: for every input of lowercase letters, digits and underscores, the
\* result of snakeCaseToCamelCase contains no underscore.
C1_NoUnderscore ==
    (nFunc = "camelCase" /\ nPc # "start") => "_" \notin Elems(nOut)

\* C2: snakeCaseToCamelCase is idempotent on its own output:
\* camelCase(camelCase(s)) = camelCase(s).
C2_Idempotent ==
    (nFunc = "camelCase" /\ nPc = "twice") => nOut2 = nOut

\* The remainder of a reference once "#/definitions/" is stripped, read off
\* the input.
C10_Remainder ==
    IF HasPrefix(nInput, DefinitionsPrefix)
    THEN [i \in 1..(Len(nInput) - Len(DefinitionsPrefix)) |->
             nInput[i + Len(DefinitionsPrefix)]]
    ELSE nInput

\* C10 as stated: convertRefToClassName strips "#/definitions/" when present
\* and upper-cases only the first character of the remainder; every other
\* character is returned unchanged.
C10_OnlyFirstCapitalized ==
    (nFunc = "cleanRef" /\ nPc = "once") =>
        LET rem == C10_Remainder
        IN  /\ Len(nOut) = Len(rem)
            /\ \A i \in 1..Len(rem) :
                  nOut[i] = (IF i = 1 THEN ToUpper(rem[i]) ELSE rem[i])

\* C10 as amended: the prefix is stripped when present; the first character
\* of the remainder and every character that directly follows a character
\* other than a letter, digit or underscore are upper-cased, all others are
\* unchanged; so in a remainder of letters, digits and underscores only the
\* first character changes.
C10_TitleOfRemainder ==
    (nFunc = "cleanRef" /\ nPc = "once") =>
        LET rem == C10_Remainder
            wordChar(c) == IsLower(c) \/ IsUpper(c) \/ c \in DigitChars \/ c = "_"
        IN  /\ Len(nOut) = Len(rem)
            /\ \A i \in 1..Len(rem) :
                  nOut[i] = (IF i = 1 \/ ~wordChar(rem[i - 1])
                             THEN ToUpper(rem[i]) ELSE rem[i])
            /\ (\A i \in 1..Len(rem) : wordChar(rem[i])) =>
                  \A i \in 2..Len(rem) : nOut[i] = rem[i]

\* A prefixed reference whose remainder has an underscore and a separator,
\* after conversion.
C10_Witness ==
    /\ nFunc = "cleanRef"
    /\ nPc = "once"
    /\ HasPrefix(nInput, DefinitionsPrefix)
    /\ "_" \in Elems(nOut)
    /\ "." \in Elems(nOut)
    /\ Len(nOut) = MaxLen

\* -------------------------------------------------------- generator claims

\* Main returned after an Execute without error.
Generated == gPc = "done" /\ ~execErr /\ ~createErr

\* The name of the interface the chunk at position i of the destination
\* lies in: that of the last interface opened at or before i.
InterfaceAt(i) ==
    LET opened == { j \in 1..i : dest[j].kind = "interface" }
    IN  IF opened = {} THEN <<>>
        ELSE dest[CHOOSE j \in opened : \A k \in opened : k <= j].name

\* The positions of the fields written inside interface name.
FieldsOf(name) ==
    { i \in 1..Len(dest) : dest[i].kind = "field" /\ InterfaceAt(i) = name }

\* The key with its first character upper-cased.
Capitalized(key) ==
    IF key = <<>> THEN <<>> ELSE <<ToUpper(key[1])>> \o Tail(key)

\* Pass A renders every definition as one interface named by the
\* capitalized key, with one field per property, the field of property k
\* being named by the key, camelCased or unchanged.
PassAEmits(camelCased) ==
    \A d \in DOMAIN schema.Definitions :
        LET name == Capitalized(d)
            props == schema.Definitions[d].Properties
        IN  /\ Cardinality({ i \in 1..Len(dest) :
                    dest[i].kind = "interface" /\ dest[i].name = name }) = 1
            /\ Cardinality(FieldsOf(name)) = Cardinality(DOMAIN props)
            /\ \A k \in DOMAIN props :
                  Cardinality({ i \in FieldsOf(name) :
                      dest[i].name = (IF camelCased THEN snakeCaseToCamelCase(k)
                                     ELSE k) }) = 1

InTable(p) ==
    \/ p.Type \in {"integer", "number", "boolean", "string"}
    \/ p.Type = "array" /\ (p.Items.Type \in {"string", "integer", "boolean"}
                            \/ (p.Items.Type = "" /\ p.Items.Ref # NoRef))
    \/ p.Type = "object" /\ p.AdditionalProperties.Type \in {"string", "integer", "boolean"}

TableWord(tag) == IF tag \in {"integer", "number"} THEN "number" ELSE tag

\* The type the table gives; RefTypeName is the reference without its
\* prefix, capitalized.
TableType(p) ==
    IF p.Type = "array"
    THEN IF p.Items.Type # ""
         THEN TypeOf("Array", TableWord(p.Items.Type), <<>>)
         ELSE TypeOf("Array", "",
                     Capitalized(TrimPrefix(p.Items.Ref, DefinitionsPrefix)))
    ELSE IF p.Type = "object"
    THEN TypeOf("MapString", TableWord(p.AdditionalProperties.Type), <<>>)
    ELSE TypeOf("", TableWord(p.Type), <<>>)

\* C4: every property whose shape is a primitive, array-of-primitive,
\* array-of-reference or map-of-primitive row of the table is emitted with
\* exactly the type the table gives.
C4_TableTypes ==
    Generated =>
        \A d \in DOMAIN document.Definitions :
            \A k \in DOMAIN document.Definitions[d].Properties :
                LET p == document.Definitions[d].Properties[k]
                IN  InTable(p) =>
                        \E i \in FieldsOf(Capitalized(d)) :
                            dest[i].name = k /\ dest[i].type = TableType(p)

\* C5: for a property of type object whose additionalProperties is a
\* reference, generation completes and emits a map of string to the type
\* name of that reference; it neither fails nor emits an empty type name.
C5_MapOfReference ==
    (gPc = "done" /\ ~createErr) =>
        \A d \in DOMAIN document.Definitions :
            \A k \in DOMAIN document.Definitions[d].Properties :
                LET p == document.Definitions[d].Properties[k]
                    ref == p.AdditionalProperties.Ref
                IN  (p.Type = "object" /\ p.AdditionalProperties.Type = "" /\ ref # NoRef) =>
                        /\ ~execErr
                        /\ convertRefToClassName(ref) # <<>>
                        /\ \E i \in FieldsOf(Capitalized(d)) :
                              /\ dest[i].name = k
                              /\ dest[i].type =
                                   TypeOf("MapString", "", convertRefToClassName(ref))

\* The references of the document that C6 names: of a property, of an
\* array's items, of a body parameter's schema, of the 200 response.
References ==
    UNION { LET ps == document.Definitions[d].Properties
            IN  { ps[k].Ref : k \in DOMAIN ps } \cup { ps[k].Items.Ref : k \in DOMAIN ps } :
            d \in DOMAIN document.Definitions }
    \cup UNION { { document.Paths[i].Operation.Parameters[j].Schema.Ref :
                    j \in DOMAIN document.Paths[i].Operation.Parameters } :
                 i \in DOMAIN document.Paths }
    \cup { document.Paths[i].Operation.ResponseRef : i \in DOMAIN document.Paths }

\* The type names of references to definitions the document does not hold.
UnresolvedNames ==
    { convertRefToClassName(r) :
        r \in { x \in References :
                  /\ x # NoRef
                  /\ TrimPrefix(x, DefinitionsPrefix) \notin DOMAIN document.Definitions } }

\* The type names the text at position i of the destination mentions.
NamesWritten(i) ==
    { dest[i].type.ref } \cup { dest[i].args[j].type.ref : j \in DOMAIN dest[i].args }

\* C6: when a property, array item, body-parameter schema or 200-response
\* schema references a definition the document does not hold, generation
\* aborts with an error and no text for that reference reaches the
\* destination.
C6_UnresolvedAborts ==
    UnresolvedNames # {} =>
        /\ gPc = "done" => (execErr \/ createErr)
        /\ \A i \in 1..Len(dest) : NamesWritten(i) \cap UnresolvedNames = {}

\* C7: when rendering fails, the destination holds none of the rendered
\* output: a failed run is never left with a prefix of the generated text.
C7_NoPartialOutput ==
    execErr => dest = <<>>

\* ----------------------------------------------------------- client claims

\* The positions of the required parameters whose argument is null or
\* undefined.
MissingRequired ==
    { i \in 1..Len(cParams) :
        cParams[i].Required /\ cArgs[i] \in {"null", "undefined"} }

\* The call is past the required-checks of the method.
ChecksOver == ~(cPc = "check" /\ cIdx <= Len(cParams))

\* C8 as stated: for every required parameter, a call that passes null or
\* undefined for it throws an error naming that parameter's camelCase
\* argument name, before doFetch is invoked.
C8_ThrowNamesEachMissing ==
    \A i \in MissingRequired :
        /\ fFetches = 0 /\ cPc \in {"check", "threw"}
        /\ ChecksOver =>
              cPc = "threw" /\ cThrown = snakeCaseToCamelCase(cParams[i].Name)

\* C8 as amended: a call that passes null or undefined for a required
\* parameter (whatever its location) throws an error naming the camelCase
\* argument name of the first such parameter in declaration order, before
\* doFetch is invoked; no call with a missing required argument reaches the
\* network step, and no other call throws.
C8_ThrowNamesFirstMissing ==
    /\ MissingRequired # {} =>
          LET first == CHOOSE i \in MissingRequired :
                          \A j \in MissingRequired : i <= j
          IN  /\ fFetches = 0 /\ fNet = "idle" /\ fTimer = "idle"
              /\ cPc \in {"check", "threw"}
              /\ cPc = "check" => cIdx <= first
              /\ cPc = "threw" =>
                    cThrown = snakeCaseToCamelCase(cParams[first].Name)
    /\ MissingRequired = {} => cPc # "threw"

\* A call whose first argument is null for an optional parameter and whose
\* second is undefined for the required parameter id has thrown, naming id.
C8_Witness ==
    /\ cPc = "threw"
    /\ Len(cParams) = 2
    /\ ~cParams[1].Required /\ cArgs[1] = "null"
    /\ cParams[2].Required /\ cArgs[2] = "undefined"
    /\ cThrown = id
    /\ fFetches = 0

\* What the race has settled with, for a given fate of a 2xx response whose
\* body does not parse.
RaceResult(unparsed) ==
    IF Head(fEvents) = "timer" THEN Rejected("Request timed out.", 0)
    ELSE IF fStatus = 0 THEN Rejected("network error", 0)
    ELSE IF ~IsSuccess(fStatus) THEN Rejected("response", fStatus)
    ELSE IF fNet = "fulfilled" THEN Fulfilled("json", fStatus)
    ELSE unparsed

\* Every call settles once, by the branch that settled first, and fetch is
\* called at most once.
SettledByFirst(unparsed) ==
    /\ fFetches <= 1
    /\ Len(fEvents) <= 2
    /\ fEvents = <<>> <=> fOutcome.state = "pending"
    /\ fEvents # <<>> => fOutcome = RaceResult(unparsed)

\* C9 as stated: a call of doFetch settles once, by the race: the timer
\* firing before the network branch settles rejects it with "Request timed
\* out."; otherwise a response outside 200..299 rejects it with the
\* response and a response in 200..299 resolves it with the parsed JSON
\* body; later events do not change it, and it is never retried.
C9_SuccessAlwaysResolves ==
    SettledByFirst(Fulfilled("json", fStatus))

\* C9 as amended: as stated, except that a response in 200..299 resolves
\* the call with the parsed JSON body only when the body parses; when
\* response.json() fails the call is rejected with that error (and a fetch
\* that fails without a response rejects it with fetch's error).
C9_SettledByFirstBranch ==
    SettledByFirst(Rejected("parse error", fStatus))

\* Both branches have settled, the network branch first with a parsed 2xx
\* body, the timer after it: the call stays resolved.
C9_Witness ==
    /\ fEvents = <<"net", "timer">>
    /\ IsSuccess(fStatus)
    /\ fNet = "fulfilled"
    /\ fOutcome.state = "fulfilled"

=============================================================================
